---- MODULE Spec2Model ----
(***************************************************************************)
(* Containify: the dual-backend container lifecycle manager.               *)
(*                                                                         *)
(* The state is the containers directory of one root (one directory per   *)
(* container name, holding metadata.json, workspace/ and env/), the        *)
(* container engine reached through the docker SDK, and the outcome of the *)
(* last backend call.  Every backend function is one action.               *)
(***************************************************************************)
EXTENDS Integers, Sequences, FiniteSets, TLC

\* ------------------------------------------------------------------ bounds

\* Engine container ids handed out by the engine over one behaviour.
MaxIds == 2

\* ------------------------------------------------------------------ inputs

\* Container names are character sequences.
NameA == <<"a">>
NameB == <<"b">>
Names == {NameA, NameB}

\* The limits a caller passes to create: the command line's defaults, the
\* limits of the end-to-end scenario, and the smallest CPU share.
LimitsInputs ==
    { [memory_mb |-> 0,   storage_mb |-> 0,    cpu_percent |-> 100],
      [memory_mb |-> 256, storage_mb |-> 512,  cpu_percent |-> 50] }

\* The clock when create reads it: one instant for the store, two for the
\* panel, where a record outlives later edits.
Now == {1}
Times == {1, 2}

\* psutil.cpu_count(logical=True) of the host; 0 stands for None.
OneCpu == {1}
CpuCounts == {0, 3}

\* The CPU percents that reach create: the two of LimitsInputs, and those
\* the operator types.
Percents == {0, 1, 15, 50, 100, 150}

\* What the operator types for a size: megabytes, gigabytes in capitals
\* with a blank after them, a negative number.
SizeTexts == { <<"0">>, <<"1", "G", " ">>, <<"-", "1">> }

\* What the operator types for the storage size.
StorageTexts == { <<"0">>, <<"5", "1", "2", "m", "b">> }

\* What the operator types for the CPU percent at the panel.
CpuTexts == { <<"0">>, <<"1", "5">>, <<"1", "5", "0">>, <<"x">> }

\* What click hands to create for --cpu.
CpuInts == {0 - 5, 15, 150}

\* What the operator types for the startup command.
CommandTexts == { <<>>, <<" ">>, <<"r", "u", "n">> }

\* Exit codes of a child process.
ExitCodes == {0, 1}

\* exit_code of an exec_run in the engine; -1 stands for None, the engine
\* reporting no code.
ExecCodes == {0 - 1, 0, 1}

\* The packages given to install.
PackageInputs == { <<>>, <<"requests">> }

\* The orders in which iterdir yields the container directories.
Orders == { <<NameA, NameB>>, <<NameB, NameA>> }

\* Names the name policy rejects.
BadName == <<"a", " ">>
EmptyName == <<>>

\* What the operator may type as a name.
NameInputs == Names \cup {BadName}

\* Names the name policy accepts and the operating system reads as the
\* directory itself and as its parent.
Dot == <<".">>
DotDot == <<".", ".">>

\* Every name a directory could be asked for.
DirNames == NameInputs \cup {EmptyName, Dot, DotDot}

\* ------------------------------------------------------------------ paths

\* utils.get_containers_dir: root_dir / "containers"
get_containers_dir == <<"root", "containers">>

\* utils.get_container_dir: get_containers_dir(root_dir) / container_name
get_container_dir(name) == Append(get_containers_dir, name)

\* The directory that dir / name denotes when the path is used
\* (container_dir.exists(), mkdir, open, shutil.move, shutil.rmtree).
os_resolve(dir, name) ==
    IF name = Dot THEN dir
    ELSE IF name = DotDot THEN SubSeq(dir, 1, Len(dir) - 1)
    ELSE Append(dir, name)

\* container_dir / "workspace"
workspace_dir(name) == Append(get_container_dir(name), "workspace")

\* The characters of the class [a-zA-Z0-9._-].
NameChars ==
    { "a", "b", "c", "d", "e", "f", "g", "h", "i", "j", "k", "l", "m",
      "n", "o", "p", "q", "r", "s", "t", "u", "v", "w", "x", "y", "z",
      "A", "B", "C", "D", "E", "F", "G", "H", "I", "J", "K", "L", "M",
      "N", "O", "P", "Q", "R", "S", "T", "U", "V", "W", "X", "Y", "Z",
      "0", "1", "2", "3", "4", "5", "6", "7", "8", "9", ".", "_", "-" }

\* A name policy that rejects the empty name only.
validate_container_name_nonempty(name) == Len(name) > 0

\* utils.validate_container_name: TRUE when it returns, FALSE when it
\* raises ValueError.
validate_container_name(name) ==
    Len(name) > 0 /\ \A i \in 1..Len(name) : name[i] \in NameChars

\* ------------------------------------------------------------------ JSON

Digits == <<"0", "1", "2", "3", "4", "5", "6", "7", "8", "9">>

RECURSIVE NatToText(_)
NatToText(n) ==
    IF n < 10 THEN <<Digits[n + 1]>>
    ELSE Append(NatToText(n \div 10), Digits[(n % 10) + 1])

\* json.dump of an int: its decimal text, "-" first when negative.
json_dump_int(n) == IF n < 0 THEN <<"-">> \o NatToText(0 - n) ELSE NatToText(n)

DigitValue(c) == CHOOSE d \in 0..9 : Digits[d + 1] = c

RECURSIVE TextToNat(_)
TextToNat(s) ==
    IF Len(s) = 0 THEN 0
    ELSE TextToNat(SubSeq(s, 1, Len(s) - 1)) * 10 + DigitValue(s[Len(s)])

\* json.load of a number text that takes the first character for a sign.
json_load_int_sign_always(s) == 0 - TextToNat(Tail(s))

\* json.load of a number text.
json_load_int(s) == IF s[1] = "-" THEN 0 - TextToNat(Tail(s)) ELSE TextToNat(s)

\* json.dump(md, f, indent=2, sort_keys=True): the document written to
\* metadata.json.  Numbers become text, strings stay as they are.
json_dump(md) ==
    [ kind |-> "json",
      name |-> md.name,
      backend |-> md.backend,
      limits |-> [ memory_mb |-> json_dump_int(md.limits.memory_mb),
                   storage_mb |-> json_dump_int(md.limits.storage_mb),
                   cpu_percent |-> json_dump_int(md.limits.cpu_percent) ],
      paths |-> md.paths,
      backend_data |-> md.backend_data,
      created_at |-> md.created_at,
      backend_state |-> md.backend_state ]

\* json.load(f) of a decodable document.
json_load(doc) ==
    [ name |-> doc.name,
      backend |-> doc.backend,
      limits |-> [ memory_mb |-> json_load_int(doc.limits.memory_mb),
                   storage_mb |-> json_load_int(doc.limits.storage_mb),
                   cpu_percent |-> json_load_int(doc.limits.cpu_percent) ],
      paths |-> doc.paths,
      backend_data |-> doc.backend_data,
      created_at |-> doc.created_at,
      backend_state |-> doc.backend_state ]

\* ------------------------------------------------------------------ texts

DigitChars == {Digits[i] : i \in 1..10}

\* str.strip of blanks.
RECURSIVE lstrip(_)
lstrip(s) == IF Len(s) > 0 /\ s[1] = " " THEN lstrip(Tail(s)) ELSE s

RECURSIVE rstrip(_)
rstrip(s) ==
    IF Len(s) > 0 /\ s[Len(s)] = " " THEN rstrip(SubSeq(s, 1, Len(s) - 1)) ELSE s

strip(s) == lstrip(rstrip(s))

\* str.lower, on the letters a size can hold.
lower(s) ==
    [i \in 1..Len(s) |->
        IF s[i] = "M" THEN "m" ELSE IF s[i] = "G" THEN "g"
        ELSE IF s[i] = "B" THEN "b" ELSE s[i]]

\* The length of the longest prefix of digits.
RECURSIVE DigitPrefix(_)
DigitPrefix(s) ==
    IF Len(s) = 0 \/ s[1] \notin DigitChars THEN 0 ELSE 1 + DigitPrefix(Tail(s))

\* utils.parse_size_to_mb of a text: (\d+)([mg]b?|) after strip and lower.
parse_size_to_mb(value) ==
    LET v == lower(strip(value))
        k == DigitPrefix(v)
        unit == SubSeq(v, k + 1, Len(v))
        num == TextToNat(SubSeq(v, 1, k))
    IN IF k = 0 \/ unit \notin {<<>>, <<"m">>, <<"m", "b">>, <<"g">>, <<"g", "b">>}
       THEN [res |-> "ValueError", mb |-> 0]
       ELSE IF Len(unit) > 0 /\ unit[1] = "g"
       THEN [res |-> "ok", mb |-> num * 1024]
       ELSE [res |-> "ok", mb |-> num]

\* int(text): blanks stripped, an optional sign, digits.
py_int(text) ==
    LET v == strip(text)
        signed == Len(v) > 0 /\ v[1] \in {"-", "+"}
        d == IF signed THEN Tail(v) ELSE v
    IN IF Len(d) = 0 \/ DigitPrefix(d) # Len(d)
       THEN [res |-> "ValueError", value |-> 0]
       ELSE [res |-> "ok",
             value |-> IF signed /\ v[1] = "-" THEN 0 - TextToNat(d) ELSE TextToNat(d)]

\* ------------------------------------------------- binary64 arithmetic

\* A natural number of any size: its decimal digits, most significant first.
RECURSIVE DecOfNat(_)
DecOfNat(n) == IF n < 10 THEN <<n>> ELSE Append(DecOfNat(n \div 10), n % 10)

RECURSIVE DecNorm(_)
DecNorm(s) == IF Len(s) > 1 /\ s[1] = 0 THEN DecNorm(Tail(s)) ELSE s

RECURSIVE DecMulCarry(_, _, _)
DecMulCarry(s, k, carry) ==
    IF Len(s) = 0 THEN (IF carry = 0 THEN <<>> ELSE DecOfNat(carry))
    ELSE LET v == s[Len(s)] * k + carry
         IN Append(DecMulCarry(SubSeq(s, 1, Len(s) - 1), k, v \div 10), v % 10)

\* s * k for a small factor k.
DecMul(s, k) == DecNorm(DecMulCarry(s, k, 0))

RECURSIVE DecDivRem(_, _)
DecDivRem(s, d) ==
    IF Len(s) = 0 THEN [q |-> <<>>, r |-> 0]
    ELSE LET p == DecDivRem(SubSeq(s, 1, Len(s) - 1), d)
             v == p.r * 10 + s[Len(s)]
         IN [q |-> Append(p.q, v \div d), r |-> v % d]

\* Quotient and remainder of s by a small divisor d.
DecDiv(s, d) == [q |-> DecNorm(DecDivRem(s, d).q), r |-> DecDivRem(s, d).r]

RECURSIVE DecLexLess(_, _)
DecLexLess(a, b) ==
    IF Len(a) = 0 THEN FALSE
    ELSE IF a[1] # b[1] THEN a[1] < b[1]
    ELSE DecLexLess(Tail(a), Tail(b))

DecLess(a, b) ==
    IF Len(a) # Len(b) THEN Len(a) < Len(b) ELSE DecLexLess(a, b)

DecAddOne(s) ==
    IF s[Len(s)] < 9 THEN [s EXCEPT ![Len(s)] = @ + 1]
    ELSE DecNorm(DecMulCarry(SubSeq(s, 1, Len(s) - 1) \o <<0>>, 1, 10))

\* s * 10^n.
RECURSIVE DecShift(_, _)
DecShift(s, n) == IF n = 0 \/ s = <<0>> THEN s ELSE DecShift(Append(s, 0), n - 1)

\* 2^52 and 2^53: a binary64 significand m has 2^52 <= m < 2^53.
Two52 == <<4, 5, 0, 3, 5, 9, 9, 6, 2, 7, 3, 7, 0, 4, 9, 6>>
Two53 == <<9, 0, 0, 7, 1, 9, 9, 2, 5, 4, 7, 4, 0, 9, 9, 2>>

\* The binary64 nearest to m * 2^e, ties to even: the significand is halved
\* until it has 53 bits; half is the last bit dropped, sticky whether a bit
\* dropped before it was set.
RECURSIVE Round53(_, _, _, _)
Round53(m, e, half, sticky) ==
    IF DecLess(m, Two53)
    THEN LET up == half /\ (sticky \/ m[Len(m)] % 2 = 1)
             r == IF up THEN DecAddOne(m) ELSE m
         IN IF r = Two53 THEN [m |-> Two52, e |-> e + 1] ELSE [m |-> r, e |-> e]
    ELSE Round53(DecDiv(m, 2).q, e + 1, DecDiv(m, 2).r = 1, sticky \/ half)

\* The float p / d, for integers p >= 1 and d >= 1 with p / d >= 2^-7.
FloatDiv(p, d) ==
    LET P == DecMul(DecMul(DecMul(DecOfNat(p), 1048576), 1048576), 1048576)
    IN Round53(DecDiv(P, d).q, -60, FALSE, DecDiv(P, d).r # 0)

\* The float x * (k * 10^zeros), for a float x and an integer k >= 1.
FloatMul(x, k, zeros) == Round53(DecShift(DecMul(x.m, k), zeros), x.e, FALSE, FALSE)

\* int(x) of a float 0 <= x < 2^52: the digits of m * 2^e truncated.
RECURSIVE FloatTrunc(_, _)
FloatTrunc(m, e) ==
    IF Len(m) = 0 \/ e >= 0 THEN m ELSE FloatTrunc(DecDiv(m, 2).q, e + 1)

\* ------------------------------------------------------------- directories

\* Python's None where a text or a number is expected.
None == <<>>

\* No metadata.json in the directory.
NoFile == [kind |-> "nofile"]

\* A container directory that does not exist.
NoDir == [exists |-> FALSE, file |-> NoFile, workspace |-> FALSE, env |-> FALSE]

\* backend_state of a record that never had a startup command or pid set:
\* the key is absent, which every reader treats as {}.
NoBackendState == [startup_command |-> None, startup_pid |-> 0]

\* utils.now_iso: the clock's reading t as text.
now_iso(t) == NatToText(t)

\* local._base_metadata
base_metadata_local(name, limits, now) ==
    [ name |-> name,
      backend |-> "local",
      limits |-> limits,
      paths |-> [ root |-> <<"root">>,
                  container_dir |-> get_container_dir(name),
                  workspace_dir |-> workspace_dir(name) ],
      backend_data |-> [container_id |-> 0, image |-> ""],
      created_at |-> now_iso(now),
      backend_state |-> NoBackendState ]

\* docker_backend.IMAGE
IMAGE == "python:3.11-slim"

\* docker_backend._base_metadata
base_metadata_docker(name, limits, container_id, now) ==
    [ name |-> name,
      backend |-> "docker",
      limits |-> limits,
      paths |-> [ root |-> <<"root">>,
                  container_dir |-> get_container_dir(name),
                  workspace_dir |-> workspace_dir(name) ],
      backend_data |-> [container_id |-> container_id, image |-> IMAGE],
      created_at |-> now_iso(now),
      backend_state |-> NoBackendState ]

\* ------------------------------------------------------------------ state

VARIABLES
    fs,      \* containers directory: name -> container directory
    eng,     \* engine containers: id -> status
    nextId,  \* the id the engine gives its next container
    last,    \* the last call: its arguments, outcome and the state before it
    procs    \* the invocations of the tool that run side by side

vars == <<fs, eng, nextId, last, procs>>

\* What the docker SDK and the engine behind it answer during one call.
\* "nosdk": the docker package is not importable (docker = None);
\* "noconn": docker.from_env() raises; "down": a client is built but every
\* engine call fails; "up": the engine answers.
SdkStates == {"nosdk", "noconn", "down", "up"}

Ids == 1..MaxIds

\* Two invocations of the tool, each its own operating-system process.
Procs == {1, 2}

\* An invocation that has not yet touched the containers directory.
Idle == [pc |-> "idle"]

\* The value a function returns, or that it returned nothing.
RetNone == [kind |-> "none"]
RetMd(md) == [kind |-> "md", md |-> md]
RetBackend(b) == [kind |-> "backend", backend |-> b]
RetSnap(s) == [kind |-> "snapshot", snap |-> s]
RetCode(c) == [kind |-> "code", code |-> c]
RetMsg(m) == [kind |-> "message", message |-> m]
RetList(items) == [kind |-> "list", items |-> items]

\* The keyword arguments of client.containers.create that come from the
\* limits; both None when the call was not made.
NoKwargs == [mem_limit |-> None, nano_cpus |-> None]

\* The record of one call.
Call(op, name, res, ret, calls) ==
    [ op |-> op, name |-> name, arg |-> <<>>, sdk |-> "up", res |-> res,
      ret |-> ret, calls |-> calls, steps |-> <<>>, kwargs |-> NoKwargs,
      cpus |-> 0, pre |-> fs, preEng |-> eng ]

\* The record of one call that takes a second argument: the limits of a
\* create, the new name of a rename.
CallWith(op, name, arg, res, ret, calls) ==
    [Call(op, name, res, ret, calls) EXCEPT !.arg = arg]

\* The record of one call of the managed backend, made while the SDK and
\* the engine are in condition s.
EngineCall(op, name, s, res, ret, calls) ==
    [Call(op, name, res, ret, calls) EXCEPT !.sdk = s]

\* The same, for a call that takes a second argument.
EngineCallWith(op, name, arg, s, res, ret, calls) ==
    [Call(op, name, res, ret, calls) EXCEPT !.sdk = s, !.arg = arg]

\* The directory a name denotes when nothing was created yet: the group
\* callback of the command line has made the containers directory, so the
\* names that denote it or the root denote a directory that exists.
InitialDir(n) ==
    IF Len(os_resolve(get_containers_dir, n)) <= Len(get_containers_dir)
    THEN [NoDir EXCEPT !.exists = TRUE]
    ELSE NoDir

Init ==
    /\ fs = [n \in DirNames |-> InitialDir(n)]
    /\ eng = [i \in Ids |-> "none"]
    /\ nextId = 1
    /\ last = Call("init", NameA, "ok", RetNone, {})
    /\ procs = [p \in Procs |-> Idle]

\* ------------------------------------------------------- metadata store

\* A create that removes the directory again when a later step fails.
WithoutDirectory(dir) == NoDir

\* A directory with its workspace, as ensure_dir leaves it.
WithWorkspace(dir) == [dir EXCEPT !.exists = TRUE, !.workspace = TRUE]

\* local.read_local_metadata and docker_backend.read_docker_metadata: the
\* same file, whatever its backend field.
read_metadata(dir) ==
    IF ~dir.exists \/ dir.file.kind = "nofile"
    THEN [res |-> "FileNotFoundError", ret |-> RetNone]
    ELSE IF dir.file.kind = "corrupt"
    THEN [res |-> "JSONDecodeError", ret |-> RetNone]
    ELSE [res |-> "ok", ret |-> RetMd(json_load(dir.file))]

\* local.read_local_metadata as a call.
read_local_metadata(n) ==
    /\ UNCHANGED procs
    /\ last' = Call("read_local_metadata", n, read_metadata(fs[n]).res,
                    read_metadata(fs[n]).ret, {})
    /\ UNCHANGED <<fs, eng, nextId>>

\* docker_backend.read_docker_metadata as a call.
read_docker_metadata(n) ==
    /\ UNCHANGED procs
    /\ last' = Call("read_docker_metadata", n, read_metadata(fs[n]).res,
                    read_metadata(fs[n]).ret, {})
    /\ UNCHANGED <<fs, eng, nextId>>

\* local.create_local_container.  venvOk: whether venv.EnvBuilder.create
\* succeeds.
create_local_container(n, limits, now, venvOk) ==
    /\ UNCHANGED procs
    /\ IF fs[n].exists
       THEN /\ last' = CallWith("create_local_container", n, limits, "FileExistsError", RetNone, {})
            /\ UNCHANGED <<fs, eng, nextId>>
       ELSE IF ~venvOk
       THEN /\ fs' = [fs EXCEPT ![n] = [WithWorkspace(@) EXCEPT !.env = TRUE]]
            /\ last' = CallWith("create_local_container", n, limits, "CalledProcessError", RetNone, {})
            /\ UNCHANGED <<eng, nextId>>
       ELSE /\ LET md == base_metadata_local(n, limits, now)
               IN /\ fs' = [fs EXCEPT ![n] = [ exists |-> TRUE, workspace |-> TRUE,
                                               env |-> TRUE, file |-> json_dump(md) ]]
                  /\ last' = CallWith("create_local_container", n, limits, "ok", RetMd(md), {})
            /\ UNCHANGED <<eng, nextId>>

\* local.run_in_local.  code: the exit code of the child process.
run_in_local(n, code) ==
    /\ UNCHANGED procs
    /\ IF ~fs[n].exists \/ fs[n].file.kind = "nofile"
       THEN /\ last' = Call("run_in_local", n, "FileNotFoundError", RetNone, {})
            /\ UNCHANGED <<fs, eng, nextId>>
       ELSE /\ fs' = [fs EXCEPT ![n] = WithWorkspace(@)]
            /\ last' = Call("run_in_local", n, "ok", RetCode(code), {})
            /\ UNCHANGED <<eng, nextId>>

\* A delete that unlinks metadata.json and leaves the directory.
delete_local_metadata_only(n) ==
    /\ UNCHANGED procs
    /\ fs' = [fs EXCEPT ![n].file = NoFile]
    /\ last' = Call("delete_local_container", n, "ok", RetNone, {})
    /\ UNCHANGED <<eng, nextId>>

\* local.delete_local_container
delete_local_container(n) ==
    /\ UNCHANGED procs
    /\ fs' = [fs EXCEPT ![n] = IF fs[n].exists THEN NoDir ELSE @]
    /\ last' = Call("delete_local_container", n, "ok", RetNone, {})
    /\ UNCHANGED <<eng, nextId>>

\* The record of one call that runs processes or engine calls one after the
\* other: steps lists them in the order they were issued.
StepsCall(op, name, arg, s, res, ret, steps) ==
    [ Call(op, name, res, ret, {steps[i] : i \in 1..Len(steps)})
        EXCEPT !.arg = arg, !.sdk = s, !.steps = steps ]

\* What an install was given: the packages and the exit codes its steps
\* will end with.
Install(packages, upgrade, install) ==
    [packages |-> packages, upgrade |-> upgrade, install |-> install]

\* An install that runs the upgrade with subprocess.call and goes on when
\* it failed.
install_in_local_unchecked(n, packages, upCode, instCode) ==
    /\ UNCHANGED procs
    /\ LET arg == Install(packages, upCode, instCode)
       IN /\ last' =
               IF ~fs[n].exists \/ fs[n].file.kind = "nofile"
               THEN StepsCall("install_in_local", n, arg, "up", "FileNotFoundError", RetNone, <<>>)
               ELSE IF packages # <<>>
               THEN StepsCall("install_in_local", n, arg, "up", "ok", RetCode(instCode),
                              <<"upgrade", "install">>)
               ELSE StepsCall("install_in_local", n, arg, "up", "ok", RetCode(0), <<"upgrade">>)
          /\ UNCHANGED <<fs, eng, nextId>>

\* local.install_in_local.  upCode, instCode: the exit codes of the pip
\* upgrade and of the package install.
install_in_local(n, packages, upCode, instCode) ==
    /\ UNCHANGED procs
    /\ LET arg == Install(packages, upCode, instCode)
       IN /\ last' =
               IF ~fs[n].exists \/ fs[n].file.kind = "nofile"
               THEN StepsCall("install_in_local", n, arg, "up", "FileNotFoundError", RetNone, <<>>)
               ELSE IF upCode # 0
               THEN StepsCall("install_in_local", n, arg, "up", "CalledProcessError", RetNone,
                              <<"upgrade">>)
               ELSE IF packages # <<>>
               THEN StepsCall("install_in_local", n, arg, "up", "ok", RetCode(instCode),
                              <<"upgrade", "install">>)
               ELSE StepsCall("install_in_local", n, arg, "up", "ok", RetCode(0), <<"upgrade">>)
          /\ UNCHANGED <<fs, eng, nextId>>

\* local.list_local_containers: every metadata.json under the containers
\* directory, loaded in iterdir order; a file that does not decode raises.
RECURSIVE list_local(_, _)
list_local(dirs, order) ==
    IF Len(order) = 0 THEN [res |-> "ok", items |-> <<>>]
    ELSE LET dir == dirs[order[1]]
             rest == list_local(dirs, Tail(order))
         IN IF ~dir.exists \/ dir.file.kind = "nofile" THEN rest
            ELSE IF dir.file.kind = "corrupt"
            THEN [res |-> "JSONDecodeError", items |-> <<>>]
            ELSE IF rest.res # "ok" THEN rest
            ELSE [res |-> "ok", items |-> <<json_load(dir.file)>> \o rest.items]

\* docker_backend.list_docker_containers: the same scan, keeping the
\* records whose backend is docker.
RECURSIVE list_docker(_, _)
list_docker(dirs, order) ==
    IF Len(order) = 0 THEN [res |-> "ok", items |-> <<>>]
    ELSE LET dir == dirs[order[1]]
             rest == list_docker(dirs, Tail(order))
         IN IF ~dir.exists \/ dir.file.kind = "nofile" THEN rest
            ELSE IF dir.file.kind = "corrupt"
            THEN [res |-> "JSONDecodeError", items |-> <<>>]
            ELSE IF rest.res # "ok" THEN rest
            ELSE IF json_load(dir.file).backend = "docker"
            THEN [res |-> "ok", items |-> <<json_load(dir.file)>> \o rest.items]
            ELSE rest

\* The snapshot local stats and managed stats fall back to.
ZeroSnapshot(status) ==
    [cpu_percent |-> 0, mem_usage_bytes |-> 0, uptime_seconds |-> -1, status |-> status]

\* What psutil answers for a recorded pid: the process runs, it is a zombie
\* that is_running() denies, it is gone (NoSuchProcess), or AccessDenied.
ProcStates == {"running", "stopped", "gone", "denied"}

\* The try block of local.local_container_stats: the exception it raises,
\* "return" with the snapshot it returns, or "pass" when no pid is recorded.
\* uptime_seconds -1 stands for None.
local_stats_try(dir, proc) ==
    LET r == read_metadata(dir)
    IN IF r.res # "ok" THEN [res |-> r.res, snap |-> ZeroSnapshot("unknown")]
       ELSE IF r.ret.md.backend_state.startup_pid = 0
       THEN [res |-> "pass", snap |-> ZeroSnapshot("unknown")]
       ELSE IF proc = "gone"
       THEN [res |-> "NoSuchProcess", snap |-> ZeroSnapshot("unknown")]
       ELSE IF proc = "denied"
       THEN [res |-> "AccessDenied", snap |-> ZeroSnapshot("unknown")]
       ELSE [ res |-> "return",
              snap |-> [ cpu_percent |-> 5, mem_usage_bytes |-> 4096,
                         uptime_seconds |-> 1, status |-> proc ] ]

\* local_container_stats with "except psutil.Error" for "except Exception":
\* a failed read of the metadata escapes.
local_stats_outcome_psutil_only(dir, proc) ==
    LET t == local_stats_try(dir, proc)
    IN IF t.res = "return" THEN [res |-> "ok", ret |-> RetSnap(t.snap)]
       ELSE IF t.res \in {"FileNotFoundError", "JSONDecodeError"}
       THEN [res |-> t.res, ret |-> RetNone]
       ELSE [res |-> "ok", ret |-> RetSnap(ZeroSnapshot("unknown"))]

\* local.local_container_stats: "except Exception: pass" and the return
\* of the zeroed snapshot after it.
local_stats_outcome(dir, proc) ==
    LET t == local_stats_try(dir, proc)
    IN IF t.res = "return" THEN [res |-> "ok", ret |-> RetSnap(t.snap)]
       ELSE [res |-> "ok", ret |-> RetSnap(ZeroSnapshot("unknown"))]

\* local.local_container_stats as a call.
local_container_stats(n, proc) ==
    /\ UNCHANGED procs
    /\ last' = Call("local_container_stats", n, local_stats_outcome(fs[n], proc).res,
                    local_stats_outcome(fs[n], proc).ret, {})
    /\ UNCHANGED <<fs, eng, nextId>>

\* local.start_local_container: returns None and does nothing else.
start_local_container(n) ==
    /\ UNCHANGED procs
    /\ last' = Call("start_local_container", n, "ok", RetNone, {})
    /\ UNCHANGED <<fs, eng, nextId>>

\* The psutil calls of local.stop_local_container on a recorded pid:
\* psutil.Process(pid) raises NoSuchProcess for a process that is gone;
\* terminate() is called on any other, and kill() when wait(timeout=5)
\* times out.
stop_calls(dir, proc, exits) ==
    LET r == read_metadata(dir)
    IN IF r.res # "ok" THEN {}
       ELSE IF r.ret.md.backend_state.startup_pid = 0 THEN {}
       ELSE IF proc = "gone" THEN {}
       ELSE IF proc = "denied" \/ exits THEN {"terminate"}
       ELSE {"terminate", "kill"}

\* local.stop_local_container: every exception is swallowed.  proc: what
\* psutil finds under the recorded pid; exits: whether the process ends
\* within the timeout.
stop_local_container(n, proc, exits) ==
    /\ UNCHANGED procs
    /\ last' = Call("stop_local_container", n, "ok", RetNone,
                     stop_calls(fs[n], proc, exits))
    /\ UNCHANGED <<fs, eng, nextId>>

\* A resolver that trusts the presence of a readable record and never looks
\* at its backend field.
resolve_backend_by_presence(dir) ==
    IF read_metadata(dir).res = "ok" THEN "local" ELSE "none"

\* cli._resolve_backend: both reads are of the same file; every exception of
\* a read is swallowed.
resolve_backend(dir) ==
    LET r == read_metadata(dir)
    IN IF r.res = "ok" /\ r.ret.md.backend = "local" THEN "local"
       ELSE IF r.res = "ok" /\ r.ret.md.backend = "docker" THEN "docker"
       ELSE "none"

\* cli._resolve_backend as a call.
ResolveBackend(n) ==
    /\ UNCHANGED procs
    /\ last' = Call("_resolve_backend", n, "ok", RetBackend(resolve_backend(fs[n])), {})
    /\ UNCHANGED <<fs, eng, nextId>>

\* --------------------------------------------------- managed backend

\* docker_backend._client: "ok", or the exception it raises.
client_error(s) ==
    IF s = "nosdk" THEN "RuntimeError"
    ELSE IF s = "noconn" THEN "DockerException"
    ELSE "ok"

\* client.containers.get(container_id): "ok", or the exception it raises.
containers_get(s, e, id) ==
    IF s = "down" THEN "DockerException"
    ELSE IF e[id] = "none" THEN "NotFound"
    ELSE "ok"

\* Where the engine steps of a managed create first fail.
CreateFailures == {"none", "pull", "create", "reload"}

\* A single engine call can fail or succeed only where the engine answers
\* at all.
EngineAnswers(s) == IF s = "up" THEN BOOLEAN ELSE {FALSE}
EngineFailures(s, failures) == IF s = "up" THEN failures ELSE {"none"}

\* psutil.cpu_count(logical=True) or 1
cpu_count_or_1(count) == IF count = 0 THEN 1 ELSE count

\* docker_backend._nano_cpus_for_percent: the sign and the digits of
\* int((percent / 100.0) * cpus * 1_000_000_000), computed in binary64.
nano_cpus_for_percent(percent, count) ==
    LET cpus == cpu_count_or_1(count)
        a == IF percent < 0 THEN 0 - percent ELSE percent
        x == FloatMul(FloatMul(FloatDiv(a, 100), cpus, 0), 1, 9)
    IN IF percent = 0 THEN [sign |-> 0, digits |-> <<0>>]
       ELSE [ sign |-> IF percent < 0 THEN -1 ELSE 1,
              digits |-> FloatTrunc(x.m, x.e) ]

\* A memory ceiling that is passed for every memory_mb, zero included.
mem_limit_always(limits) == json_dump_int(limits.memory_mb) \o <<"m">>

\* mem_limit of create_docker_container: f"{memory_mb}m", or None when
\* memory_mb is 0.
mem_limit(limits) ==
    IF limits.memory_mb # 0
    THEN json_dump_int(limits.memory_mb) \o <<"m">>
    ELSE None

\* _nano_cpus_for_percent over the percents and CPU counts of the inputs,
\* computed once.
nano_cpus ==
    CHOOSE f \in {[x \in Percents \X (CpuCounts \cup OneCpu) |->
                      nano_cpus_for_percent(x[1], x[2])]} : f = f

\* The keyword arguments create_docker_container derives from the limits:
\* nano_cpus is passed only when it is positive.
create_kwargs(limits, count) ==
    LET q == nano_cpus[<<limits.cpu_percent, count>>]
    IN [ mem_limit |-> mem_limit(limits),
         nano_cpus |-> IF q.sign > 0 THEN q.digits ELSE None ]

\* The record of a call of create_docker_container on a host with count
\* logical CPUs: the keyword arguments are those of containers.create when
\* the call got that far.
CreateCall(n, limits, count, s, res, ret, calls) ==
    [ EngineCallWith("create_docker_container", n, limits, s, res, ret, calls)
        EXCEPT !.cpus = count,
               !.kwargs = IF "create" \in calls
                          THEN create_kwargs(limits, count) ELSE NoKwargs ]

\* docker_backend.create_docker_container.  now: the clock; count: the
\* host's logical CPUs; fail: the engine step that fails.
create_docker_container(n, limits, now, count, fail, sdk) ==
    /\ UNCHANGED procs
    /\ IF client_error(sdk) # "ok"
       THEN /\ last' = CreateCall(n, limits, count, sdk, client_error(sdk), RetNone, {})
            /\ UNCHANGED <<fs, eng, nextId>>
       ELSE IF fs[n].exists
       THEN /\ last' = CreateCall(n, limits, count, sdk, "FileExistsError", RetNone, {})
            /\ UNCHANGED <<fs, eng, nextId>>
       ELSE IF sdk = "down" \/ fail = "pull"
       THEN /\ fs' = [fs EXCEPT ![n] = WithWorkspace(@)]
            /\ last' = CreateCall(n, limits, count, sdk, "DockerException", RetNone,
                            {"pull"})
            /\ UNCHANGED <<eng, nextId>>
       ELSE IF fail = "create"
       THEN /\ fs' = [fs EXCEPT ![n] = WithWorkspace(@)]
            /\ last' = CreateCall(n, limits, count, sdk, "DockerException", RetNone,
                             {"pull", "create"})
            /\ UNCHANGED <<eng, nextId>>
       ELSE IF fail = "reload"
       THEN /\ nextId <= MaxIds
            /\ fs' = [fs EXCEPT ![n] = WithWorkspace(@)]
            /\ eng' = [eng EXCEPT ![nextId] = "created"]
            /\ nextId' = nextId + 1
            /\ last' = CreateCall(n, limits, count, sdk, "DockerException", RetNone,
                             {"pull", "create", "reload"})
       ELSE /\ nextId <= MaxIds
            /\ eng' = [eng EXCEPT ![nextId] = "created"]
            /\ nextId' = nextId + 1
            /\ LET md == base_metadata_docker(n, limits, nextId, now)
               IN /\ fs' = [fs EXCEPT ![n] = [ exists |-> TRUE, workspace |-> TRUE,
                                               env |-> FALSE, file |-> json_dump(md) ]]
                  /\ last' = CreateCall(n, limits, count, sdk, "ok", RetMd(md),
                                   {"pull", "create", "reload"})

\* docker_backend._get_container: the outcome, the engine id it looked up
\* and the engine calls it made.
get_container(dir, s, e) ==
    LET r == read_metadata(dir)
    IN IF r.res # "ok" THEN [res |-> r.res, id |-> 0, calls |-> {}]
       ELSE IF r.ret.md.backend_data.container_id = 0
       THEN [res |-> "RuntimeError", id |-> 0, calls |-> {}]
       ELSE IF client_error(s) # "ok"
       THEN [res |-> client_error(s), id |-> 0, calls |-> {}]
       ELSE [ res |-> containers_get(s, e, r.ret.md.backend_data.container_id),
              id |-> r.ret.md.backend_data.container_id, calls |-> {"get"} ]

\* docker_backend.start_docker_container.  startOk: whether c.start()
\* succeeds when it is called.
start_docker_container(n, startOk, sdk) ==
    /\ UNCHANGED procs
    /\ LET g == get_container(fs[n], sdk, eng)
       IN IF g.res # "ok"
          THEN /\ last' = EngineCall("start_docker_container", n, sdk, g.res, RetNone, g.calls)
               /\ UNCHANGED <<fs, eng, nextId>>
          ELSE IF eng[g.id] = "running"
          THEN /\ last' = EngineCall("start_docker_container", n, sdk, "ok", RetNone, g.calls)
               /\ UNCHANGED <<fs, eng, nextId>>
          ELSE IF startOk
          THEN /\ eng' = [eng EXCEPT ![g.id] = "running"]
               /\ last' = EngineCall("start_docker_container", n, sdk, "ok", RetNone,
                               g.calls \cup {"start"})
               /\ UNCHANGED <<fs, nextId>>
          ELSE /\ last' = EngineCall("start_docker_container", n, sdk, "DockerException", RetNone,
                               g.calls \cup {"start"})
               /\ UNCHANGED <<fs, eng, nextId>>

\* docker_backend.stop_docker_container.  stopOk: whether c.stop()
\* succeeds; its failure is swallowed.
stop_docker_container(n, stopOk, sdk) ==
    /\ UNCHANGED procs
    /\ LET g == get_container(fs[n], sdk, eng)
       IN IF g.res # "ok"
          THEN /\ last' = EngineCall("stop_docker_container", n, sdk, g.res, RetNone, g.calls)
               /\ UNCHANGED <<fs, eng, nextId>>
          ELSE /\ eng' = [eng EXCEPT ![g.id] =
                             IF stopOk /\ @ = "running" THEN "exited" ELSE @]
               /\ last' = EngineCall("stop_docker_container", n, sdk, "ok", RetNone,
                               g.calls \cup {"stop"})
               /\ UNCHANGED <<fs, nextId>>

\* One stats answer of the engine: the deltas of the cumulative CPU-time
\* counters between its two samples, and online_cpus (0: not reported).
StatsSamples ==
    { [total |-> 0, system |-> 0, online_cpus |-> 0, usage |-> 0],
      [total |-> 1, system |-> 4, online_cpus |-> 2, usage |-> 4096],
      [total |-> 0 - 1, system |-> 4, online_cpus |-> 2, usage |-> 4096] }

\* The CPU percent of docker_container_stats, in whole percents.
stats_cpu_percent(sample) ==
    LET n_cpus == IF sample.online_cpus # 0 THEN sample.online_cpus ELSE 1
    IN IF sample.system > 0 /\ n_cpus > 0
       THEN (sample.total * n_cpus * 100) \div sample.system
       ELSE 0

\* docker_backend.docker_container_stats.  statsOk: whether c.stats() and
\* c.reload() succeed.  uptime_seconds -1 stands for None.
docker_container_stats(n, statsOk, sample, sdk) ==
    /\ UNCHANGED procs
    /\ LET g == get_container(fs[n], sdk, eng)
       IN /\ last' =
               IF g.res # "ok"
               THEN EngineCall("docker_container_stats", n, sdk, g.res, RetNone, g.calls)
               ELSE IF ~statsOk
               THEN EngineCall("docker_container_stats", n, sdk, "ok",
                         RetSnap([ cpu_percent |-> 0, mem_usage_bytes |-> 0,
                                   mem_limit_bytes |-> 0, uptime_seconds |-> -1,
                                   status |-> eng[g.id] ]),
                         g.calls \cup {"stats"})
               ELSE EngineCallWith("docker_container_stats", n, sample, sdk, "ok",
                         RetSnap([ cpu_percent |-> stats_cpu_percent(sample),
                                   mem_usage_bytes |-> sample.usage,
                                   mem_limit_bytes |-> 0,
                                   uptime_seconds |->
                                       IF eng[g.id] = "running" THEN 1 ELSE -1,
                                   status |-> eng[g.id] ]),
                         g.calls \cup {"stats", "reload"})
          /\ UNCHANGED <<fs, eng, nextId>>

\* docker_backend._ensure_running: the outcome, the engine calls issued
\* and the engine after them.
ensure_running(id, startOk, s, e) ==
    IF client_error(s) # "ok"
    THEN [res |-> client_error(s), steps |-> <<>>, eng |-> e]
    ELSE IF containers_get(s, e, id) # "ok"
    THEN [res |-> containers_get(s, e, id), steps |-> <<"get">>, eng |-> e]
    ELSE IF e[id] = "running"
    THEN [res |-> "ok", steps |-> <<"get">>, eng |-> e]
    ELSE IF startOk
    THEN [res |-> "ok", steps |-> <<"get", "start">>, eng |-> [e EXCEPT ![id] = "running"]]
    ELSE [res |-> "DockerException", steps |-> <<"get", "start">>, eng |-> e]

\* A run that executes in the container as it finds it.
run_in_docker_as_found(n, code, startOk, sdk) ==
    /\ UNCHANGED procs
    /\ LET r == read_metadata(fs[n])
           id == r.ret.md.backend_data.container_id
       IN /\ last' =
               IF r.res # "ok"
               THEN StepsCall("run_in_docker", n, code, sdk, r.res, RetNone, <<>>)
               ELSE IF id = 0
               THEN StepsCall("run_in_docker", n, code, sdk, "RuntimeError", RetNone, <<>>)
               ELSE IF client_error(sdk) # "ok" \/ containers_get(sdk, eng, id) # "ok"
               THEN StepsCall("run_in_docker", n, code, sdk, "DockerException", RetNone, <<>>)
               ELSE StepsCall("run_in_docker", n, code, sdk, "ok",
                              RetCode(IF code = -1 THEN 0 ELSE code), <<"get", "exec">>)
          /\ UNCHANGED <<fs, eng, nextId>>

\* docker_backend.run_in_docker.  code: exit_code of the exec_run.
run_in_docker(n, code, startOk, sdk) ==
    /\ UNCHANGED procs
    /\ LET r == read_metadata(fs[n])
           id == r.ret.md.backend_data.container_id
           c == ensure_running(id, startOk, sdk, eng)
       IN IF r.res # "ok"
          THEN /\ last' = StepsCall("run_in_docker", n, code, sdk, r.res, RetNone, <<>>)
               /\ UNCHANGED <<fs, eng, nextId>>
          ELSE IF id = 0
          THEN /\ last' = StepsCall("run_in_docker", n, code, sdk, "RuntimeError", RetNone, <<>>)
               /\ UNCHANGED <<fs, eng, nextId>>
          ELSE IF c.res # "ok"
          THEN /\ last' = StepsCall("run_in_docker", n, code, sdk, c.res, RetNone, c.steps)
               /\ UNCHANGED <<fs, eng, nextId>>
          ELSE /\ eng' = c.eng
               /\ last' = StepsCall("run_in_docker", n, code, sdk, "ok",
                                     RetCode(IF code = -1 THEN 0 ELSE code),
                                     Append(c.steps, "exec"))
               /\ UNCHANGED <<fs, nextId>>

\* docker_backend.install_in_docker.  upCode, instCode: exit_code of the
\* two exec_run calls.
install_in_docker(n, packages, upCode, instCode, startOk, sdk) ==
    /\ UNCHANGED procs
    /\ LET r == read_metadata(fs[n])
           id == r.ret.md.backend_data.container_id
           c == ensure_running(id, startOk, sdk, eng)
           arg == Install(packages, upCode, instCode)
       IN IF r.res # "ok"
          THEN /\ last' = StepsCall("install_in_docker", n, arg, sdk, r.res, RetNone, <<>>)
               /\ UNCHANGED <<fs, eng, nextId>>
          ELSE IF id = 0
          THEN /\ last' = StepsCall("install_in_docker", n, arg, sdk, "RuntimeError", RetNone, <<>>)
               /\ UNCHANGED <<fs, eng, nextId>>
          ELSE IF c.res # "ok"
          THEN /\ last' = StepsCall("install_in_docker", n, arg, sdk, c.res, RetNone, c.steps)
               /\ UNCHANGED <<fs, eng, nextId>>
          ELSE /\ eng' = c.eng
               /\ last' =
                    IF upCode \notin {0, -1}
                    THEN StepsCall("install_in_docker", n, arg, sdk, "ok", RetCode(upCode),
                                   Append(c.steps, "upgrade"))
                    ELSE IF packages # <<>>
                    THEN StepsCall("install_in_docker", n, arg, sdk, "ok",
                                   RetCode(IF instCode = -1 THEN 0 ELSE instCode),
                                   c.steps \o <<"upgrade", "install">>)
                    ELSE StepsCall("install_in_docker", n, arg, sdk, "ok", RetCode(0),
                                   Append(c.steps, "upgrade"))
               /\ UNCHANGED <<fs, nextId>>

\* docker_backend.delete_docker_container.  removeOk: whether
\* c.remove(force=True) succeeds; a failure of get or remove is swallowed.
delete_docker_container(n, removeOk, sdk) ==
    /\ UNCHANGED procs
    /\ LET r == read_metadata(fs[n])
           id == r.ret.md.backend_data.container_id
       IN IF r.res # "ok"
          THEN /\ last' = EngineCall("delete_docker_container", n, sdk, r.res, RetNone, {})
               /\ UNCHANGED <<fs, eng, nextId>>
          ELSE IF id = 0
          THEN /\ fs' = [fs EXCEPT ![n] = NoDir]
               /\ last' = EngineCall("delete_docker_container", n, sdk, "ok", RetNone, {})
               /\ UNCHANGED <<eng, nextId>>
          ELSE IF client_error(sdk) # "ok"
          THEN /\ last' = EngineCall("delete_docker_container", n, sdk, client_error(sdk), RetNone, {})
               /\ UNCHANGED <<fs, eng, nextId>>
          ELSE IF containers_get(sdk, eng, id) # "ok"
          THEN /\ fs' = [fs EXCEPT ![n] = NoDir]
               /\ last' = EngineCall("delete_docker_container", n, sdk, "ok", RetNone, {"get"})
               /\ UNCHANGED <<eng, nextId>>
          ELSE /\ fs' = [fs EXCEPT ![n] = NoDir]
               /\ eng' = [eng EXCEPT ![id] = IF removeOk THEN "none" ELSE @]
               /\ last' = EngineCall("delete_docker_container", n, sdk, "ok", RetNone,
                               {"get", "remove"})
               /\ UNCHANGED nextId

\* ------------------------------------------------------------ environment

\* An engine container is started, stopped or removed outside the tool.
EngineExternal(id, st) ==
    /\ UNCHANGED procs
    /\ eng[id] # "none"
    /\ st # eng[id]
    /\ eng' = [eng EXCEPT ![id] = st]
    /\ last' = Call("environment", NameA, "ok", RetNone, {})
    /\ UNCHANGED <<fs, nextId>>

\* ------------------------------------------------------ interactive panel

\* A rename that moves the directory and leaves the record's name field.
Rename_keeps_name(n, new_name) ==
    /\ UNCHANGED procs
    /\ fs[n].exists
    /\ fs[n].file.kind = "json"
    /\ validate_container_name(new_name)
    /\ new_name # n
    /\ ~fs[new_name].exists
    /\ fs' = [fs EXCEPT ![n] = NoDir, ![new_name] = fs[n]]
    /\ last' = CallWith("rename", n, new_name, "ok", RetMsg("Renamed"), {})
    /\ UNCHANGED <<eng, nextId>>

\* cli.enter, action "rename", on the container the operator selected from
\* the listing: md is the record stored under n.
Rename(n, new_name) ==
    /\ UNCHANGED procs
    /\ fs[n].exists
    /\ fs[n].file.kind = "json"
    /\ LET md == json_load(fs[n].file)
       IN IF ~validate_container_name(new_name)
          THEN /\ last' = CallWith("rename", n, new_name, "ValueError", RetNone, {})
               /\ UNCHANGED <<fs, eng, nextId>>
          ELSE IF new_name = md.name
          THEN /\ last' = CallWith("rename", n, new_name, "ok", RetNone, {})
               /\ UNCHANGED <<fs, eng, nextId>>
          ELSE IF fs[new_name].exists
          THEN /\ last' = CallWith("rename", n, new_name, "ok",
                               RetMsg("Target name already exists"), {})
               /\ UNCHANGED <<fs, eng, nextId>>
          ELSE /\ fs' = [fs EXCEPT
                           ![md.name] = NoDir,
                           ![new_name] =
                               [fs[md.name] EXCEPT !.file =
                                   json_dump([md EXCEPT !.name = new_name])]]
               /\ last' = CallWith("rename", n, new_name, "ok", RetMsg("Renamed"), {})
               /\ UNCHANGED <<eng, nextId>>

\* What the operator typed at a prompt sequence, or passed as options.
Typed(backend, ram, storage, cpu) ==
    [backend |-> backend, ram |-> ram, storage |-> storage, cpu |-> cpu]

\* cli.enter, main choice "create": the name is validated, the sizes and
\* the CPU percent are parsed, the backend's create is called.
enter_create(n, backend, ram, storage, cpu_str, now, count, venvOk, fail, sdk) ==
    /\ UNCHANGED procs
    /\ IF ~validate_container_name(n)
            \/ parse_size_to_mb(ram).res # "ok"
            \/ parse_size_to_mb(storage).res # "ok"
            \/ py_int(cpu_str).res # "ok"
       THEN /\ last' = CallWith("enter_create", n, Typed(backend, ram, storage, cpu_str),
                                 "ValueError", RetNone, {})
            /\ UNCHANGED <<fs, eng, nextId>>
       ELSE LET limits == [ memory_mb |-> parse_size_to_mb(ram).mb,
                            storage_mb |-> parse_size_to_mb(storage).mb,
                            cpu_percent |-> py_int(cpu_str).value ]
            IN IF backend = "local"
               THEN create_local_container(n, limits, now, venvOk)
               ELSE create_docker_container(n, limits, now, count, fail, sdk)

\* A limits edit that writes a fresh backend_state with the new limits.
enter_limits_fresh_state(n, ram, storage, cpu_str) ==
    /\ UNCHANGED procs
    /\ fs[n].exists
    /\ fs[n].file.kind = "json"
    /\ parse_size_to_mb(ram).res = "ok"
    /\ parse_size_to_mb(storage).res = "ok"
    /\ py_int(cpu_str).res = "ok"
    /\ LET data == json_load(fs[n].file)
           lim2 == [ memory_mb |-> parse_size_to_mb(ram).mb,
                     storage_mb |-> parse_size_to_mb(storage).mb,
                     cpu_percent |-> py_int(cpu_str).value ]
       IN /\ fs' = [fs EXCEPT ![n].file =
                        json_dump([data EXCEPT !.limits = lim2,
                                               !.backend_state = NoBackendState])]
          /\ last' = CallWith("enter_limits", n, Typed(data.backend, ram, storage, cpu_str),
                               "ok", RetMsg("Limits updated"), {})
          /\ UNCHANGED <<eng, nextId>>

\* cli.enter, action "limits", on the container the operator selected from
\* the listing: the typed limits replace the stored ones.
enter_limits(n, ram, storage, cpu_str) ==
    /\ UNCHANGED procs
    /\ fs[n].exists
    /\ fs[n].file.kind = "json"
    /\ LET md == json_load(fs[n].file)
           typed == Typed(md.backend, ram, storage, cpu_str)
       IN IF parse_size_to_mb(ram).res # "ok"
               \/ parse_size_to_mb(storage).res # "ok"
               \/ py_int(cpu_str).res # "ok"
          THEN /\ last' = CallWith("enter_limits", n, typed, "ValueError", RetNone, {})
               /\ UNCHANGED <<fs, eng, nextId>>
          ELSE LET lim2 == [ memory_mb |-> parse_size_to_mb(ram).mb,
                             storage_mb |-> parse_size_to_mb(storage).mb,
                             cpu_percent |-> py_int(cpu_str).value ]
                   data == json_load(fs[md.name].file)
               IN /\ fs' = [fs EXCEPT ![md.name].file =
                                json_dump([data EXCEPT !.limits = lim2])]
                  /\ last' = CallWith("enter_limits", n, typed, "ok",
                                       RetMsg("Limits updated"), {})
                  /\ UNCHANGED <<eng, nextId>>

\* A startup action that launches the command and records its pid.
enter_startup_recording_pid(n, new_cmd) ==
    /\ UNCHANGED procs
    /\ fs[n].exists
    /\ fs[n].file.kind = "json"
    /\ LET data == json_load(fs[n].file)
       IN /\ fs' = [fs EXCEPT ![n].file =
                        json_dump([data EXCEPT
                            !.backend_state.startup_command = strip(new_cmd),
                            !.backend_state.startup_pid =
                                IF strip(new_cmd) = None THEN 0 ELSE 4242])]
          /\ last' = CallWith("enter_startup", n, new_cmd, "ok", RetMsg("Saved"), {})
          /\ UNCHANGED <<eng, nextId>>

\* cli.enter, action "startup": the typed command, stripped, or None for an
\* empty one, replaces backend_state.startup_command.
enter_startup(n, new_cmd) ==
    /\ UNCHANGED procs
    /\ fs[n].exists
    /\ fs[n].file.kind = "json"
    /\ LET md == json_load(fs[n].file)
           data == json_load(fs[md.name].file)
       IN /\ fs' = [fs EXCEPT ![md.name].file =
                        json_dump([data EXCEPT
                            !.backend_state.startup_command = strip(new_cmd)])]
          /\ last' = CallWith("enter_startup", n, new_cmd, "ok", RetMsg("Saved"), {})
          /\ UNCHANGED <<eng, nextId>>

\* ----------------------------------------------------------- command line

\* cli.create: the name is validated, the sizes are parsed, the CPU percent
\* is clamped to 1..100, the backend's create is called.
create(n, backend, ram, storage, cpu, now, count, venvOk, fail, sdk) ==
    /\ UNCHANGED procs
    /\ IF ~validate_container_name(n)
            \/ parse_size_to_mb(ram).res # "ok"
            \/ parse_size_to_mb(storage).res # "ok"
       THEN /\ last' = CallWith("create", n, Typed(backend, ram, storage, cpu),
                                 "ValueError", RetNone, {})
            /\ UNCHANGED <<fs, eng, nextId>>
       ELSE LET capped == IF cpu < 100 THEN cpu ELSE 100
                limits == [ memory_mb |-> parse_size_to_mb(ram).mb,
                            storage_mb |-> parse_size_to_mb(storage).mb,
                            cpu_percent |-> IF capped > 1 THEN capped ELSE 1 ]
            IN IF backend = "local"
               THEN create_local_container(n, limits, now, venvOk)
               ELSE create_docker_container(n, limits, now, count, fail, sdk)

\* cli.list_cmd: list_local_containers(root) + list_docker_containers(root),
\* each with the order its iterdir yields.
list_cmd(o1, o2) ==
    /\ UNCHANGED procs
    /\ LET loc == list_local(fs, o1)
           doc == list_docker(fs, o2)
       IN /\ last' =
               IF loc.res # "ok" THEN Call("list", NameA, loc.res, RetNone, {})
               ELSE IF doc.res # "ok" THEN Call("list", NameA, doc.res, RetNone, {})
               ELSE Call("list", NameA, "ok", RetList(loc.items \o doc.items), {})
          /\ UNCHANGED <<fs, eng, nextId>>

\* cli.delete with a name.  yes: the operator passed --yes or confirmed at
\* the prompt.
delete(n, yes, removeOk, sdk) ==
    /\ UNCHANGED procs
    /\ IF ~yes
       THEN /\ last' = CallWith("delete", n, yes, "ok", RetNone, {})
            /\ UNCHANGED <<fs, eng, nextId>>
       ELSE IF resolve_backend(fs[n]) = "local"
       THEN delete_local_container(n)
       ELSE IF resolve_backend(fs[n]) = "docker"
       THEN delete_docker_container(n, removeOk, sdk)
       ELSE /\ last' = CallWith("delete", n, yes, "ClickException",
                                 RetMsg("not found"), {})
            /\ UNCHANGED <<fs, eng, nextId>>

\* ------------------------------------------------------------ file server

\* What an FTP client may upload as metadata.json of container n: text that
\* is no JSON, a record of another tool's backend, a managed record without
\* its engine id, a local record with a startup pid.
ForeignDocs(n) ==
    { [kind |-> "corrupt"],
      json_dump([base_metadata_local(n, [memory_mb |-> 0, storage_mb |-> 0,
                                         cpu_percent |-> 100], 1)
                    EXCEPT !.backend = "podman"]),
      json_dump(base_metadata_docker(n, [memory_mb |-> 0, storage_mb |-> 0,
                                         cpu_percent |-> 100], 0, 1)),
      json_dump([base_metadata_local(n, [memory_mb |-> 0, storage_mb |-> 0,
                                         cpu_percent |-> 100], 1)
                    EXCEPT !.backend_state.startup_pid = 4242]) }

\* fileserver.serve_forever: the FTP user has write permission ("w" of
\* perm="elradfmw") below the containers directory; a STOR of
\* <n>/metadata.json.
FtpStore(n, doc) ==
    /\ UNCHANGED procs
    /\ fs[n].exists
    /\ fs' = [fs EXCEPT ![n].file = doc]
    /\ last' = Call("environment", n, "ok", RetNone, {})
    /\ UNCHANGED <<eng, nextId>>

\* ------------------------------------------------- concurrent invocations

\* metadata.json right after open(..., "w") created or truncated it.
EmptyFile == [kind |-> "corrupt", size |-> 0]

\* An invocation inside create_local_container or create_docker_container,
\* about to execute the statement pc names.
Creating(pc, n, backend, limits, now, id) ==
    [ pc |-> pc, op |-> "create", name |-> n, backend |-> backend,
      limits |-> limits, now |-> now, id |-> id, res |-> "running" ]

\* The same invocation after it returned or raised.
Ended(proc, res) == [proc EXCEPT !.pc = "done", !.res = res]

\* The name of the backend function an invocation is in.
CreateOp(proc) ==
    IF proc.backend = "local" THEN "create_local_container"
    ELSE "create_docker_container"

\* The record an invocation writes.
CreateMd(proc) ==
    IF proc.backend = "local"
    THEN base_metadata_local(proc.name, proc.limits, proc.now)
    ELSE base_metadata_docker(proc.name, proc.limits, proc.id, proc.now)

\* An invocation raises res: the exception ends it.
Raise(p, res) ==
    /\ procs' = [procs EXCEPT ![p] = Ended(@, res)]
    /\ last' = CallWith(CreateOp(procs[p]), procs[p].name, procs[p].limits, res,
                         RetNone, {})

\* "if container_dir.exists(): raise FileExistsError" of both creates, the
\* first statement of an invocation that touches the containers directory.
create_exists(p, n, backend, limits, now) ==
    /\ procs[p].pc = "idle"
    /\ IF fs[n].exists
       THEN /\ procs' = [procs EXCEPT ![p] =
                            Ended(Creating("exists", n, backend, limits, now, 0),
                                  "FileExistsError")]
            /\ last' = CallWith(CreateOp([backend |-> backend]), n, limits,
                                 "FileExistsError", RetNone, {})
       ELSE /\ procs' = [procs EXCEPT ![p] =
                            Creating("ensure_dir", n, backend, limits, now, 0)]
            /\ UNCHANGED last
    /\ UNCHANGED <<fs, eng, nextId>>

\* ensure_dir(container_dir); ensure_dir(workspace): mkdir with
\* exist_ok=True, which succeeds on a directory that exists by now.
create_ensure_dir(p) ==
    /\ procs[p].pc = "ensure_dir"
    /\ fs' = [fs EXCEPT ![procs[p].name] = WithWorkspace(@)]
    /\ procs' = [procs EXCEPT ![p].pc =
                    IF procs[p].backend = "local" THEN "venv" ELSE "pull"]
    /\ UNCHANGED <<eng, nextId, last>>

\* builder.create(venv_dir) of create_local_container; clear=False accepts
\* an env directory that exists.
create_venv(p, venvOk) ==
    /\ procs[p].pc = "venv"
    /\ fs' = [fs EXCEPT ![procs[p].name].env = TRUE]
    /\ IF venvOk
       THEN procs' = [procs EXCEPT ![p].pc = "open"] /\ UNCHANGED last
       ELSE Raise(p, "CalledProcessError")
    /\ UNCHANGED <<eng, nextId>>

\* client.images.pull(IMAGE) of create_docker_container.
create_pull(p, pullOk) ==
    /\ procs[p].pc = "pull"
    /\ IF pullOk
       THEN procs' = [procs EXCEPT ![p].pc = "containers_create"] /\ UNCHANGED last
       ELSE Raise(p, "DockerException")
    /\ UNCHANGED <<fs, eng, nextId>>

\* client.containers.create(IMAGE, name=f"containify-{name}", ...): the
\* engine refuses a container name that is taken.  taken: the engine
\* containers that carry this invocation's name.
create_containers_create(p, createOk, taken) ==
    /\ procs[p].pc = "containers_create"
    /\ IF createOk /\ taken = {}
       THEN /\ nextId <= MaxIds
            /\ eng' = [eng EXCEPT ![nextId] = "created"]
            /\ nextId' = nextId + 1
            /\ procs' = [procs EXCEPT ![p].pc = "reload", ![p].id = nextId]
            /\ UNCHANGED last
       ELSE /\ Raise(p, "DockerException")
            /\ UNCHANGED <<eng, nextId>>
    /\ UNCHANGED fs

\* container.reload() of create_docker_container.
create_reload(p, reloadOk) ==
    /\ procs[p].pc = "reload"
    /\ IF reloadOk
       THEN procs' = [procs EXCEPT ![p].pc = "open"] /\ UNCHANGED last
       ELSE Raise(p, "DockerException")
    /\ UNCHANGED <<fs, eng, nextId>>

\* (container_dir / "metadata.json").open("w"): the file is created, or
\* truncated when it exists.
create_open(p) ==
    /\ procs[p].pc = "open"
    /\ fs' = [fs EXCEPT ![procs[p].name].file = EmptyFile]
    /\ procs' = [procs EXCEPT ![p].pc = "dump"]
    /\ UNCHANGED <<eng, nextId, last>>

\* json.dump(md, f, ...) and the close of the file: the text is written
\* from offset 0.  whole: the file holds this text and nothing else
\* afterwards; a text that another invocation wrote since this one's open
\* and that is longer keeps its tail, and the file no longer decodes.
create_dump(p, whole) ==
    /\ procs[p].pc = "dump"
    /\ whole \/ fs[procs[p].name].file # EmptyFile
    /\ fs' = [fs EXCEPT ![procs[p].name].file =
                 IF whole THEN json_dump(CreateMd(procs[p]))
                 ELSE [kind |-> "corrupt"]]
    /\ procs' = [procs EXCEPT ![p] = Ended(@, "ok")]
    /\ last' = CallWith(CreateOp(procs[p]), procs[p].name, procs[p].limits,
                         "ok", RetMd(CreateMd(procs[p])), {})
    /\ UNCHANGED <<eng, nextId>>

\* An invocation inside an edit of the panel, about to execute the
\* statement pc names.  text: what md_file.read_text() returned; data: the
\* dictionary loaded from it, with the edit's assignment made.
Editing(pc, action, n, text, data, change) ==
    [ pc |-> pc, op |-> action, name |-> n, text |-> text, data |-> data,
      change |-> change, res |-> "running" ]

\* An edit ends with an exception before it read the file.
EditRaise(p, action, n, change, res) ==
    /\ procs' = [procs EXCEPT ![p] =
                    Ended(Editing("read", action, n, NoFile, NoFile, change), res)]
    /\ last' = CallWith(action, n, change, res, RetNone, {})

\* data["limits"] = lim2 of the limits action;
\* backend_state["startup_command"] = ... of the startup action.
Assign(data, action, change) ==
    IF action = "enter_limits" THEN [data EXCEPT !.limits = change]
    ELSE [data EXCEPT !.backend_state.startup_command = change]

\* cli.enter, action "limits", up to the assignment: the typed values are
\* parsed, metadata.json of the selected container is read and loaded, the
\* new limits are put into the loaded dictionary.
enter_limits_read(p, n, ram, storage, cpu_str) ==
    /\ procs[p].pc = "idle"
    /\ fs[n].exists
    /\ LET typed == Typed("", ram, storage, cpu_str)
           r == read_metadata(fs[n])
           lim2 == [ memory_mb |-> parse_size_to_mb(ram).mb,
                     storage_mb |-> parse_size_to_mb(storage).mb,
                     cpu_percent |-> py_int(cpu_str).value ]
       IN IF parse_size_to_mb(ram).res # "ok"
               \/ parse_size_to_mb(storage).res # "ok"
               \/ py_int(cpu_str).res # "ok"
          THEN EditRaise(p, "enter_limits", n, typed, "ValueError")
          ELSE IF r.res # "ok"
          THEN EditRaise(p, "enter_limits", n, lim2, r.res)
          ELSE /\ procs' = [procs EXCEPT ![p] =
                               Editing("open", "enter_limits", n, fs[n].file,
                                       Assign(r.ret.md, "enter_limits", lim2), lim2)]
               /\ UNCHANGED last
    /\ UNCHANGED <<fs, eng, nextId>>

\* cli.enter, action "startup", up to the assignment.
enter_startup_read(p, n, new_cmd) ==
    /\ procs[p].pc = "idle"
    /\ fs[n].exists
    /\ LET r == read_metadata(fs[n])
       IN IF r.res # "ok"
          THEN EditRaise(p, "enter_startup", n, strip(new_cmd), r.res)
          ELSE /\ procs' = [procs EXCEPT ![p] =
                               Editing("open", "enter_startup", n, fs[n].file,
                                       Assign(r.ret.md, "enter_startup", strip(new_cmd)),
                                       strip(new_cmd))]
               /\ UNCHANGED last
    /\ UNCHANGED <<fs, eng, nextId>>

\* A write that loads the file again when it opens it and makes its
\* assignment in what it finds there.
write_text_open_reread(p) ==
    /\ procs[p].pc = "open"
    /\ fs' = [fs EXCEPT ![procs[p].name].file = EmptyFile]
    /\ procs' = [procs EXCEPT
                    ![p].pc = "write",
                    ![p].data =
                        IF fs[procs[p].name].file.kind = "json"
                        THEN Assign(json_load(fs[procs[p].name].file),
                                    procs[p].op, procs[p].change)
                        ELSE @]
    /\ UNCHANGED <<eng, nextId, last>>

\* md_file.write_text(...), first half: the file is opened for writing and
\* truncated.
write_text_open(p) ==
    /\ procs[p].pc = "open"
    /\ fs' = [fs EXCEPT ![procs[p].name].file = EmptyFile]
    /\ procs' = [procs EXCEPT ![p].pc = "write"]
    /\ UNCHANGED <<eng, nextId, last>>

\* md_file.write_text(...), second half: json.dumps(data) is written from
\* offset 0 and the file is closed; then "Saved" or "Limits updated" is
\* echoed.  whole: as for create_dump.
write_text_write(p, whole) ==
    /\ procs[p].pc = "write"
    /\ whole \/ fs[procs[p].name].file # EmptyFile
    /\ fs' = [fs EXCEPT ![procs[p].name].file =
                 IF whole THEN json_dump(procs[p].data)
                 ELSE [kind |-> "corrupt"]]
    /\ procs' = [procs EXCEPT ![p] = Ended(@, "ok")]
    /\ last' = CallWith(procs[p].op, procs[p].name, procs[p].change, "ok",
                         RetMsg(IF procs[p].op = "enter_limits"
                                THEN "Limits updated" ELSE "Saved"), {})
    /\ UNCHANGED <<eng, nextId>>

\* -------------------------------------------------------- specifications

\* The metadata store and both backends' create, read and delete.
Next ==
    \/ \E n \in Names, l \in LimitsInputs, t \in Now, ok \in BOOLEAN :
          create_local_container(n, l, t, ok)
    \/ \E n \in Names, l \in LimitsInputs, t \in Now, c \in OneCpu, s \in SdkStates :
          \E f \in EngineFailures(s, CreateFailures) :
             create_docker_container(n, l, t, c, f, s)
    \/ \E n \in Names : read_local_metadata(n)
    \/ \E n \in Names : read_docker_metadata(n)
    \/ \E n \in Names : ResolveBackend(n)
    \/ \E n \in Names, c \in ExitCodes : run_in_local(n, c)
    \/ \E n \in Names : delete_local_container(n)
    \/ \E n \in Names, s \in SdkStates : \E ok \in EngineAnswers(s) :
          delete_docker_container(n, ok, s)
    \/ \E n \in Names, new \in NameInputs : Rename(n, new)

Spec == Init /\ [][Next]_vars

\* The store with a file server running beside it.
NextFtp ==
    \/ \E n \in Names, l \in LimitsInputs, t \in Now, ok \in BOOLEAN :
          create_local_container(n, l, t, ok)
    \/ \E n \in Names, l \in LimitsInputs, t \in Now, c \in OneCpu, s \in SdkStates :
          \E f \in EngineFailures(s, CreateFailures) :
             create_docker_container(n, l, t, c, f, s)
    \/ \E n \in Names : ResolveBackend(n)
    \/ \E n \in Names, p \in ProcStates : local_container_stats(n, p)
    \/ \E n \in Names : delete_local_container(n)
    \/ \E n \in Names : \E d \in ForeignDocs(n) : FtpStore(n, d)
    \/ \E o1 \in Orders, o2 \in Orders : list_cmd(o1, o2)

SpecFtp == Init /\ [][NextFtp]_vars

\* The managed backend, for one container name, against an engine that
\* changes under it.
NextEngine ==
    \/ \E n \in {NameA}, l \in LimitsInputs, t \in Now, c \in OneCpu, s \in SdkStates :
          \E f \in EngineFailures(s, CreateFailures) :
             create_docker_container(n, l, t, c, f, s)
    \/ \E n \in {NameA}, s \in SdkStates : \E ok \in EngineAnswers(s) :
          delete_docker_container(n, ok, s)
    \/ \E n \in {NameA}, x \in StatsSamples, s \in SdkStates :
          \E ok \in EngineAnswers(s) : docker_container_stats(n, ok, x, s)
    \/ \E n \in {NameA}, s \in SdkStates : \E ok \in EngineAnswers(s) :
          start_docker_container(n, ok, s)
    \/ \E n \in {NameA}, s \in SdkStates : \E ok \in EngineAnswers(s) :
          stop_docker_container(n, ok, s)
    \/ \E i \in Ids, st \in {"none", "running", "exited"} : EngineExternal(i, st)

SpecEngine == Init /\ [][NextEngine]_vars

\* One container name, created once with either backend, with packages
\* installed and commands run in it, an engine that changes under it and a
\* file server beside it.
NextExec ==
    \/ \E l \in LimitsInputs, t \in Now, ok \in BOOLEAN :
          create_local_container(NameA, l, t, ok)
    \/ \E l \in LimitsInputs, t \in Now, c \in OneCpu :
          create_docker_container(NameA, l, t, c, "none", "up")
    \/ \E pk \in PackageInputs, u \in ExitCodes, i \in ExitCodes :
          install_in_local(NameA, pk, u, i)
    \/ \E pk \in PackageInputs, u \in ExecCodes, i \in ExecCodes, s \in {"down", "up"} :
          \E ok \in EngineAnswers(s) : install_in_docker(NameA, pk, u, i, ok, s)
    \/ \E code \in ExecCodes, s \in SdkStates :
          \E ok \in EngineAnswers(s) : run_in_docker(NameA, code, ok, s)
    \/ \E i \in Ids, st \in {"none", "running", "exited"} : EngineExternal(i, st)
    \/ \E d \in ForeignDocs(NameA) : FtpStore(NameA, d)

SpecExec == Init /\ [][NextExec]_vars

\* One container name, created from the command line and at the panel with
\* whatever the operator types for its limits, and its limits edited.
NextLimits ==
    \/ \E b \in {"local", "docker"}, ram \in SizeTexts, cpu \in CpuInts,
          t \in Now, c \in CpuCounts :
          create(NameA, b, ram, <<"0">>, cpu, t, c, TRUE, "none", "up")
    \/ \E b \in {"local", "docker"}, ram \in SizeTexts, cpu \in CpuTexts,
          t \in Now, c \in OneCpu :
          enter_create(NameA, b, ram, <<"0">>, cpu, t, c, TRUE, "none", "up")
    \/ \E ram \in SizeTexts, storage \in StorageTexts, cpu \in CpuTexts :
          enter_limits(NameA, ram, storage, cpu)
    \/ delete_local_container(NameA)

SpecLimits == Init /\ [][NextLimits]_vars

\* What the operator types at the panel of a running installation.
PanelCpus == { <<"1", "5">>, <<"x">> }

\* Two container names, created with the defaults, local ones from the
\* command line and managed ones at the panel, then edited and renamed at
\* the panel.
NextPanel ==
    \/ \E n \in DirNames, t \in Times :
          create(n, "local", <<"0">>, <<"0">>, 100, t, 1, TRUE, "none", "up")
    \/ \E n \in DirNames, t \in Now :
          enter_create(n, "docker", <<"0">>, <<"0">>, <<"1", "0", "0">>, t, 1, TRUE, "none", "up")
    \/ \E n \in Names, cpu \in PanelCpus :
          enter_limits(n, <<"2", "5", "6">>, <<"0">>, cpu)
    \/ \E n \in Names, cmd \in CommandTexts : enter_startup(n, cmd)
    \/ \E n \in Names, new \in DirNames : Rename(n, new)

SpecPanel == Init /\ [][NextPanel]_vars

\* The command line's create and delete of two names, with every way a
\* create can fail.
NextRecover ==
    \/ \E n \in Names, b \in {"local", "docker"}, t \in Now, ok \in BOOLEAN,
          s \in SdkStates :
          \E f \in EngineFailures(s, CreateFailures) :
             create(n, b, <<"0">>, <<"0">>, 100, t, 1, ok, f, s)
    \/ \E n \in Names, yes \in BOOLEAN, s \in SdkStates :
          \E ok \in EngineAnswers(s) : delete(n, yes, ok, s)

SpecRecover == Init /\ [][NextRecover]_vars

\* Two invocations that create the same name side by side, one statement
\* at a time, with either backend.
NextRace ==
    \/ \E p \in Procs, b \in {"local", "docker"}, l \in LimitsInputs, t \in Now :
          create_exists(p, NameA, b, l, t)
    \/ \E p \in Procs : create_ensure_dir(p)
    \/ \E p \in Procs, ok \in BOOLEAN : create_venv(p, ok)
    \/ \E p \in Procs, ok \in BOOLEAN : create_pull(p, ok)
    \/ \E p \in Procs, ok \in BOOLEAN :
          create_containers_create(p, ok, {i \in Ids : eng[i] # "none"})
    \/ \E p \in Procs, ok \in BOOLEAN : create_reload(p, ok)
    \/ \E p \in Procs : create_open(p)
    \/ \E p \in Procs, whole \in BOOLEAN : create_dump(p, whole)

SpecRace == Init /\ [][NextRace]_vars

\* One local container and two panels that edit it side by side, one
\* statement at a time.
NextEdits ==
    \/ \E l \in LimitsInputs, t \in Now : create_local_container(NameA, l, t, TRUE)
    \/ \E p \in Procs, ram \in SizeTexts, cpu \in PanelCpus :
          enter_limits_read(p, NameA, ram, <<"0">>, cpu)
    \/ \E p \in Procs, cmd \in CommandTexts : enter_startup_read(p, NameA, cmd)
    \/ \E p \in Procs : write_text_open(p)
    \/ \E p \in Procs, whole \in BOOLEAN : write_text_write(p, whole)

SpecEdits == Init /\ [][NextEdits]_vars

\* Two names, created with either backend, edited and renamed at the
\* panel, with commands run and packages installed in the local ones, and
\* started, stopped and measured as local containers.
NextStartup ==
    \/ \E n \in Names, b \in {"local", "docker"}, t \in Now :
          create(n, b, <<"0">>, <<"0">>, 100, t, 1, TRUE, "none", "up")
    \/ \E n \in Names : enter_limits(n, <<"2", "5", "6">>, <<"0">>, <<"1", "5">>)
    \/ \E n \in Names, cmd \in CommandTexts : enter_startup(n, cmd)
    \/ \E n \in Names, new \in Names : Rename(n, new)
    \/ \E n \in Names, c \in ExitCodes : run_in_local(n, c)
    \/ \E n \in Names, pk \in PackageInputs, u \in ExitCodes, i \in ExitCodes :
          install_in_local(n, pk, u, i)
    \/ \E n \in Names : start_local_container(n)
    \/ \E n \in Names, p \in ProcStates, x \in BOOLEAN : stop_local_container(n, p, x)
    \/ \E n \in Names, p \in ProcStates : local_container_stats(n, p)

SpecStartup == Init /\ [][NextStartup]_vars

\* ------------------------------------------------------------------ claims

\* The directory holds a decodable record whose backend field is b.
HasRecord(dir, b) ==
    dir.exists /\ dir.file.kind = "json" /\ dir.file.backend = b

CreateOps == {"create_local_container", "create_docker_container"}
ReadOps == {"read_local_metadata", "read_docker_metadata"}
BackendOf(op) == IF op = "create_local_container" THEN "local" ELSE "docker"

\* C1: when the directory of x exists because x was created as a local
\* container, a managed create of x fails with FileExistsError, makes no
\* engine call and leaves the directory of x as it was.
C1_CreateMutualExclusion ==
    (last.op = "create_docker_container" /\ HasRecord(last.pre[last.name], "local"))
        => /\ last.res = "FileExistsError"
           /\ last.calls = {}
           /\ fs[last.name] = last.pre[last.name]

\* C2: for both backends, delete of a name that has no directory returns
\* without an error and changes nothing.
C2_IdempotentDelete ==
    (last.op \in {"delete_local_container", "delete_docker_container"}
        /\ ~last.pre[last.name].exists)
        => (last.res = "ok" /\ fs = last.pre /\ eng = last.preEng)

\* C3: a read that follows a successful create of the same name returns a
\* record with the limits, the backend and the name given to the create.
C3_RoundTrip ==
    [][ (last.op \in CreateOps /\ last.res = "ok"
            /\ last'.op \in ReadOps /\ last'.name = last.name)
        => /\ last'.res = "ok"
           /\ last'.ret.md.limits = last.arg
           /\ last'.ret.md.backend = BackendOf(last.op)
           /\ last'.ret.md.name = last.name ]_vars

\* C3 witness: a read returned the record of a managed container created
\* with limits that are not the defaults.
C3_Witness ==
    /\ last.op = "read_local_metadata"
    /\ last.res = "ok"
    /\ last.ret.md.backend = "docker"
    /\ last.ret.md.limits = [memory_mb |-> 256, storage_mb |-> 512, cpu_percent |-> 50]

\* C4: resolve answers local exactly when a decodable record with backend
\* field local is stored under the name, docker exactly when one with backend
\* field docker is, none in every other case; it raises nothing and changes
\* nothing.
C4_ResolverDeterminism ==
    last.op = "_resolve_backend"
        => /\ last.res = "ok"
           /\ (last.ret.backend = "local") <=> HasRecord(fs[last.name], "local")
           /\ (last.ret.backend = "docker") <=> HasRecord(fs[last.name], "docker")
           /\ last.ret.backend \in {"local", "docker", "none"}
           /\ fs = last.pre
           /\ eng = last.preEng

\* C4 witness: resolve answered none for a stored record whose backend field
\* is neither local nor docker.
C4_Witness ==
    /\ last.op = "_resolve_backend"
    /\ last.ret.backend = "none"
    /\ fs[last.name].file.kind = "json"
    /\ fs[last.name].file.backend = "podman"

\* C5: a rename of a local container a to a valid name b that has no
\* directory moves the directory to b, sets the record's name to b and
\* changes nothing else of it, after which a resolves to none and b to local;
\* when b has a directory the rename is refused and nothing changes.
C5_Rename ==
    (last.op = "rename" /\ HasRecord(last.pre[last.name], "local")
        /\ validate_container_name(last.arg) /\ last.arg # last.name)
        => IF last.pre[last.arg].exists
           THEN /\ fs = last.pre
                /\ last.ret = RetMsg("Target name already exists")
           ELSE /\ ~fs[last.name].exists
                /\ fs[last.arg].exists
                /\ fs[last.arg].workspace = last.pre[last.name].workspace
                /\ fs[last.arg].env = last.pre[last.name].env
                /\ fs[last.arg].file.kind = "json"
                /\ json_load(fs[last.arg].file) =
                       [json_load(last.pre[last.name].file) EXCEPT !.name = last.arg]
                /\ resolve_backend(fs[last.name]) = "none"
                /\ resolve_backend(fs[last.arg]) = "local"

\* C5 witness: a local container was renamed to an unused name.
C5_Witness ==
    /\ last.op = "rename"
    /\ last.ret = RetMsg("Renamed")
    /\ HasRecord(last.pre[last.name], "local")
    /\ HasRecord(fs[last.arg], "local")

C7_LocalStatsNeverThrows ==
    last.op = "local_container_stats"
        => /\ last.res = "ok"
           /\ last.ret.kind = "snapshot"
           /\ (HasRecord(fs[last.name], "local")
                 /\ fs[last.name].file.backend_state = NoBackendState)
                 => last.ret.snap = ZeroSnapshot("unknown")

\* C7 witness: local stats was asked for a name with no directory.
C7_Witness ==
    /\ last.op = "local_container_stats"
    /\ ~fs[last.name].exists
    /\ last.ret.kind = "snapshot"

\* C8: managed stats of a stored managed record returns a snapshot and
\* raises nothing, whatever the engine answers.
C8_ManagedStatsNeverRaises ==
    (last.op = "docker_container_stats" /\ HasRecord(last.pre[last.name], "docker"))
        => (last.res = "ok" /\ last.ret.kind = "snapshot")

\* C9: managed delete of a stored managed record raises nothing for an
\* engine-side failure and leaves no directory behind.
C9_ManagedDeleteRemovesDirectory ==
    (last.op = "delete_docker_container" /\ HasRecord(last.pre[last.name], "docker"))
        => (last.res = "ok" /\ ~fs[last.name].exists)

\* The engine id stored in the record under the name before the call.
PreId == last.pre[last.name].file.backend_data.container_id

\* C10: managed stop raises nothing whatever the engine state and leaves a
\* stopped container stopped; managed start of a running container makes no
\* start call and leaves it running.
C10_StopStartIdempotent ==
    /\ (last.op = "stop_docker_container" /\ HasRecord(last.pre[last.name], "docker"))
          => /\ last.res = "ok"
             /\ (PreId # 0 /\ last.preEng[PreId] = "exited") => eng[PreId] = "exited"
    /\ (last.op = "start_docker_container" /\ HasRecord(last.pre[last.name], "docker")
          /\ last.res = "ok" /\ last.preEng[PreId] = "running")
          => ("start" \notin last.calls /\ eng[PreId] = "running")

\* The engine's create was called by the last call, a managed create.
EngineCreateCalled ==
    last.op = "create_docker_container" /\ "create" \in last.calls

\* C11: when a managed create with a cpu_percent in 1..100 calls the
\* engine's create on a host with c logical CPUs, the quota it passes is
\* cpu_percent * c * 10_000_000, which is positive.
C11_CpuQuotaTranslation ==
    (EngineCreateCalled /\ last.arg.cpu_percent \in 1..100)
        => last.kwargs.nano_cpus =
               DecShift(DecOfNat(last.arg.cpu_percent * cpu_count_or_1(last.cpus)), 7)

\* C12: when a managed create calls the engine's create, it passes a memory
\* ceiling exactly when memory_mb is greater than 0, and the ceiling is then
\* the decimal text of memory_mb followed by the unit m.
C12_MemoryLimitTranslation ==
    EngineCreateCalled
        => LET t == last.kwargs.mem_limit
           IN /\ (t # None) <=> (last.arg.memory_mb > 0)
              /\ t # None
                    => /\ t[Len(t)] = "m"
                       /\ DigitPrefix(t) = Len(t) - 1
                       /\ TextToNat(SubSeq(t, 1, Len(t) - 1)) = last.arg.memory_mb

\* C12 witness: a managed create with memory_mb 1024 called the engine's
\* create.
C12_Witness ==
    /\ EngineCreateCalled
    /\ last.arg.memory_mb = 1024
    /\ last.kwargs.mem_limit = <<"1", "0", "2", "4", "m">>

\* The name fully matches [A-Za-z0-9._-]+.
MatchesNamePattern(name) ==
    name # <<>> /\ {name[i] : i \in 1..Len(name)} \subseteq NameChars

\* C13: a create from the command line or at the panel whose name does not
\* match the pattern, and a rename to such a name, fail with ValueError and
\* change neither the containers directory nor the engine; no backend create
\* is called with such a name and no directory of such a name exists.
C13_NameValidationFirst ==
    /\ (last.op \in {"create", "enter_create"} /\ ~MatchesNamePattern(last.name))
          => (last.res = "ValueError" /\ fs = last.pre /\ eng = last.preEng)
    /\ (last.op = "rename" /\ ~MatchesNamePattern(last.arg))
          => (last.res = "ValueError" /\ fs = last.pre /\ eng = last.preEng)
    /\ last.op \in CreateOps => MatchesNamePattern(last.name)
    /\ \A n \in DirNames : fs[n].exists => MatchesNamePattern(n)

\* C13 witness: a create at the panel was refused for a name with a blank
\* in it while another container existed.
C13_Witness ==
    /\ last.op = "enter_create"
    /\ last.name = BadName
    /\ last.res = "ValueError"
    /\ \E n \in Names : fs[n].exists

\* The limits of a stored record are in range.
LimitsInRange(l) ==
    l.cpu_percent \in 1..100 /\ l.memory_mb >= 0 /\ l.storage_mb >= 0

\* C14: every stored record has cpu_percent in 1..100 and memory_mb and
\* storage_mb at least 0.
C14_LimitsInRange ==
    \A n \in DirNames :
        fs[n].file.kind = "json" => LimitsInRange(json_load(fs[n].file).limits)

\* C15: a listing of a containers directory that holds a decodable record
\* and a metadata file that does not decode returns, and holds every
\* decodable record.
C15_ListBestEffort ==
    (last.op = "list"
        /\ (\E n \in Names : fs[n].file.kind = "json")
        /\ (\E n \in Names : fs[n].file.kind = "corrupt"))
        => /\ last.res = "ok"
           /\ \A n \in Names :
                 fs[n].file.kind = "json"
                    => \E i \in 1..Len(last.ret.items) :
                          last.ret.items[i] = json_load(fs[n].file)

\* The last call was an install of either backend.
InstallOps == {"install_in_local", "install_in_docker"}

\* The upgrade step of the last install ended well: exit code 0, or for
\* the managed backend no exit code.
UpgradeSucceeded ==
    IF last.op = "install_in_local" THEN last.arg.upgrade = 0
    ELSE last.arg.upgrade \in {0, -1}

\* The exit code of the package step as the install reports it.
InstallCode == IF last.arg.install = -1 THEN 0 ELSE last.arg.install

\* C16: an install issues the package step only after the upgrade step, and
\* only when the upgrade succeeded and packages were given; after a failed
\* upgrade it fails; after a successful upgrade it returns 0 for no packages
\* and the package step's exit code otherwise.
C16_TwoPhaseInstall ==
    (last.op \in InstallOps /\ "upgrade" \in last.calls)
        => /\ "install" \in last.calls
                 => \E i, j \in 1..Len(last.steps) :
                       i < j /\ last.steps[i] = "upgrade" /\ last.steps[j] = "install"
           /\ "install" \in last.calls <=> (UpgradeSucceeded /\ last.arg.packages # <<>>)
           /\ ~UpgradeSucceeded => (last.res # "ok" \/ last.ret.code # 0)
           /\ (UpgradeSucceeded /\ last.arg.packages = <<>>)
                 => (last.res = "ok" /\ last.ret.code = 0)
           /\ (UpgradeSucceeded /\ last.arg.packages # <<>>)
                 => (last.res = "ok" /\ last.ret.code = InstallCode)

\* C16 witness: a managed install whose upgrade failed returned the
\* upgrade's exit code and issued no package step.
C16_Witness ==
    /\ last.op = "install_in_docker"
    /\ last.arg.packages # <<>>
    /\ last.arg.upgrade = 1
    /\ last.ret = RetCode(1)
    /\ "install" \notin last.calls

\* C17: a managed run on a record without an engine id fails with
\* RuntimeError and makes no engine call; otherwise start is issued exactly
\* when the container is found not running, the command is executed only in
\* a running container, and a run that returns leaves the container running
\* and returns the command's exit code, 0 when the engine reports none.
C17_ManagedRunEnsuresRunning ==
    (last.op = "run_in_docker" /\ HasRecord(last.pre[last.name], "docker"))
        => IF PreId = 0
           THEN last.res = "RuntimeError" /\ last.steps = <<>> /\ eng = last.preEng
           ELSE /\ "start" \in last.calls => last.preEng[PreId] # "running"
                /\ "exec" \in last.calls
                      => /\ eng[PreId] = "running"
                         /\ (last.preEng[PreId] = "running" \/ "start" \in last.calls)
                /\ last.res = "ok"
                      => /\ "exec" \in last.calls
                         /\ "start" \in last.calls <=> last.preEng[PreId] # "running"
                         /\ last.ret.code = (IF last.arg = -1 THEN 0 ELSE last.arg)

\* C17 witness: a managed run found its container stopped, started it and
\* returned the command's exit code.
C17_Witness ==
    /\ last.op = "run_in_docker"
    /\ last.res = "ok"
    /\ last.preEng[PreId] = "exited"
    /\ last.steps = <<"get", "start", "exec">>
    /\ last.ret = RetCode(1)

\* C18: the cpu_percent of a managed stats snapshot computed from an engine
\* sample is 0 when the container's CPU-time delta or the system's is not
\* positive, and is never negative.
C18_CpuPercentNeverNegative ==
    (last.op = "docker_container_stats" /\ last.res = "ok" /\ "reload" \in last.calls)
        => /\ (last.arg.total <= 0 \/ last.arg.system <= 0)
                 => last.ret.snap.cpu_percent = 0
           /\ last.ret.snap.cpu_percent >= 0

\* The record stored under the name of the last call before the call.
RecordBefore == json_load(last.pre[last.name].file)

\* The name the container of the last call has after the call.
NameAfter ==
    IF last.op = "rename" /\ last.ret = RetMsg("Renamed") THEN last.arg ELSE last.name

\* The record of the container of the last call after the call.
RecordAfter == json_load(fs[NameAfter].file)

\* C19: a limits edit, a startup-command edit and a rename leave the
\* record's backend, created_at and backend_data as they were; the limits
\* edit changes nothing but limits, the startup-command edit nothing but
\* backend_state.startup_command, a rename nothing but name and the
\* directory's place; no other directory changes, and a managed record is
\* the one that holds an engine id.
C19_EditsChangeOwnFieldOnly ==
    /\ last.op \in {"enter_limits", "enter_startup", "rename"}
          => /\ fs[NameAfter].file.kind = "json"
             /\ RecordAfter.backend = RecordBefore.backend
             /\ RecordAfter.created_at = RecordBefore.created_at
             /\ RecordAfter.backend_data = RecordBefore.backend_data
             /\ fs[NameAfter].workspace = last.pre[last.name].workspace
             /\ fs[NameAfter].env = last.pre[last.name].env
             /\ \A m \in DirNames \ {last.name, NameAfter} : fs[m] = last.pre[m]
             /\ last.op = "enter_limits"
                   => RecordAfter = [RecordBefore EXCEPT !.limits = RecordAfter.limits]
             /\ last.op = "enter_startup"
                   => RecordAfter =
                         [RecordBefore EXCEPT !.backend_state.startup_command =
                                                 strip(last.arg)]
             /\ last.op = "rename"
                   => RecordAfter = [RecordBefore EXCEPT !.name = NameAfter]
    /\ \A n \in DirNames :
          fs[n].file.kind = "json"
             => (fs[n].file.backend = "docker" <=> fs[n].file.backend_data.container_id # 0)

\* C19 witness: the limits of a record created at the second instant, with
\* a startup command set, were edited.
C19_Witness ==
    /\ last.op = "enter_limits"
    /\ last.res = "ok"
    /\ RecordBefore.created_at = now_iso(2)
    /\ RecordBefore.backend_state.startup_command = <<"r", "u", "n">>
    /\ RecordAfter.limits # RecordBefore.limits

\* C20: a create of either backend that fails in a step after it made the
\* directory (the environment build, the image pull, the engine's create or
\* reload) leaves the directory and its workspace, writes no metadata, and
\* the name resolves to none.
C20_FailedCreateLeavesOrphan ==
    ((last.op = "create_local_container" /\ last.res = "CalledProcessError")
        \/ (last.op = "create_docker_container" /\ last.res # "ok"
               /\ "pull" \in last.calls))
        => /\ ~last.pre[last.name].exists
           /\ fs[last.name].exists
           /\ fs[last.name].workspace
           /\ fs[last.name].file = NoFile
           /\ resolve_backend(fs[last.name]) = "none"

\* C20 witness: a managed create failed at the engine's create and left a
\* directory without metadata.
C20_Witness ==
    /\ last.op = "create_docker_container"
    /\ last.res = "DockerException"
    /\ last.calls = {"pull", "create"}
    /\ fs[last.name].exists
    /\ fs[last.name].file = NoFile

\* The command-line delete and the backend deletes it ends in.
DeleteOps == {"delete", "delete_local_container", "delete_docker_container"}

\* C21: a confirmed command-line delete of a name, issued right after a
\* create of that name failed during provisioning and left its directory,
\* removes the directory, so that a following create of the name does not
\* fail with FileExistsError.
C21_FailedCreateRecoverable ==
    [][ (/\ last.op \in CreateOps
         /\ last.res \notin {"ok", "FileExistsError"}
         /\ fs[last.name].exists
         /\ last'.op \in DeleteOps
         /\ last'.name = last.name
         /\ (last'.op = "delete" => last'.arg))
        => (last'.res = "ok" /\ ~fs'[last.name].exists) ]_vars

\* An invocation ended, and ended without an exception.
Succeeded(p) == procs[p].pc = "done" /\ procs[p].res = "ok"

\* C22: of two invocations that create the same name side by side, at most
\* one succeeds, and from the moment one has succeeded metadata.json holds
\* the record that one wrote, whatever the other does.
C22_CreateAtomic ==
    /\ ~(Succeeded(1) /\ Succeeded(2))
    /\ \A p \in Procs :
          Succeeded(p) => fs[procs[p].name].file = json_dump(CreateMd(procs[p]))

\* The field of a record that an edit assigns.
EditedField(md, op) ==
    IF op = "enter_limits" THEN md.limits ELSE md.backend_state.startup_command

\* The record in the file carries the change of invocation p.
HasChange(file, p) ==
    EditedField(json_load(file), procs[p].op) = procs[p].change

\* Both invocations edited the same container, both reported success, both
\* had read the same text of metadata.json, which had neither's change, and
\* their changes differ.
BothEditedOneText ==
    /\ Succeeded(1) /\ Succeeded(2)
    /\ procs[1].name = procs[2].name
    /\ procs[1].text = procs[2].text
    /\ ~HasChange(procs[1].text, 1)
    /\ ~HasChange(procs[1].text, 2)
    /\ (procs[1].op = procs[2].op => procs[1].change # procs[2].change)

\* C23: when two edits of one container (two limit edits, or a limit edit
\* and a startup-command edit) read the same text of metadata.json before
\* either wrote, and both report success, the record left in the file lacks
\* the change of one of them.
C23_LostUpdate ==
    (BothEditedOneText /\ fs[procs[1].name].file.kind = "json")
        => ~(HasChange(fs[procs[1].name].file, 1)
                /\ HasChange(fs[procs[1].name].file, 2))

\* C23 witness: a limit edit and a startup-command edit both reported
\* success and the record has the new startup command with the old limits.
C23_Witness ==
    /\ BothEditedOneText
    /\ procs[1].op = "enter_limits"
    /\ procs[2].op = "enter_startup"
    /\ fs[procs[1].name].file.kind = "json"
    /\ HasChange(fs[procs[1].name].file, 2)
    /\ json_load(fs[procs[1].name].file).limits = json_load(procs[1].text).limits

\* C24: every record stored in the directory of a name has that name in
\* its name field, the directory's path as paths.container_dir and the
\* path of its workspace as paths.workspace_dir.
C24_StoredPathsDerived ==
    \A n \in DirNames :
        (fs[n].exists /\ fs[n].file.kind = "json")
            => LET md == json_load(fs[n].file)
               IN /\ md.name = n
                  /\ md.paths.container_dir = get_container_dir(n)
                  /\ md.paths.workspace_dir = workspace_dir(n)

\* The names whose directory holds a decodable record.
Recorded == {n \in DirNames : fs[n].exists /\ fs[n].file.kind = "json"}

\* C25: a listing that succeeds has as many items as there are records on
\* disk, and the record of every name is exactly one of its items.
C25_ListedOnce ==
    (last.op = "list" /\ last.res = "ok")
        => /\ Len(last.ret.items) = Cardinality(Recorded)
           /\ \A n \in Recorded :
                 Cardinality({i \in 1..Len(last.ret.items) :
                                 last.ret.items[i] = json_load(fs[n].file)}) = 1

\* C26: the directory a create is asked for under a name the policy
\* accepts is a direct child of the containers directory, and no other
\* accepted name denotes the same directory.
C26_ValidNamesInside ==
    (last.op \in CreateOps /\ MatchesNamePattern(last.name))
        => LET d == os_resolve(get_containers_dir, last.name)
           IN /\ Len(d) = Len(get_containers_dir) + 1
              /\ SubSeq(d, 1, Len(get_containers_dir)) = get_containers_dir
              /\ \A m \in DirNames :
                    (MatchesNamePattern(m) /\ m # last.name)
                       => os_resolve(get_containers_dir, m) # d

\* C27: no record has a startup pid; local stats of a local container
\* returns the zeroed snapshot with status unknown; local stop and local
\* start make no psutil call and leave the store as it was.
C27_NoStartupProcess ==
    /\ \A n \in Recorded : json_load(fs[n].file).backend_state.startup_pid = 0
    /\ (last.op = "local_container_stats" /\ HasRecord(last.pre[last.name], "local"))
          => (last.res = "ok" /\ last.ret = RetSnap(ZeroSnapshot("unknown")))
    /\ last.op \in {"start_local_container", "stop_local_container"}
          => (last.res = "ok" /\ last.calls = {} /\ fs = last.pre)

\* C27 witness: a local container has a startup command, a process that
\* psutil would find running exists, and local stop made no psutil call.
C27_Witness ==
    /\ last.op = "stop_local_container"
    /\ HasRecord(fs[last.name], "local")
    /\ json_load(fs[last.name].file).backend_state.startup_command = <<"r", "u", "n">>
    /\ last.calls = {}

====
